---- MODULE Spec2Model ----
(***************************************************************************)
(* Model of alg_drawing (src/main.c): an Xlib point-to-point line drawing  *)
(* tool.  The module holds two state machines over one set of variables:   *)
(*                                                                         *)
(*   Spec        the process: init_display, main's start-up, the event     *)
(*               loop dispatching every XEvent to handle_keypress and      *)
(*               handle_click, and cleanup_display;                        *)
(*   SpecRaster  the rasterizer on its own: the loops of draw_line and     *)
(*               draw_dotted_line run one iteration per step, and          *)
(*               snap_to_axis, on endpoints drawn from a bounded square.   *)
(***************************************************************************)
EXTENDS Integers, Sequences, FiniteSets, TLC

\* Canvas size.  main.c fixes W = 600 and H = 800; the model keeps the code
\* and shrinks the canvas.
W == 2
H == 2

\* Largest number of events the event loop reads in one run of Spec.
MaxEvents == 4

\* SpecRaster draws endpoint coordinates from -1 .. MaxCoord.
MaxCoord == 10

\* main.c:37
MAX_HANDLERS == 32

VARIABLES
    pc,            \* where the process is
    ctx,           \* DisplayContext: dpy, img, w, h, fb.data, fb.saved
    state,         \* InputState: running, have_first, x0, y0, modifiers
    handlers,      \* the handlers[] array, handler_count = Len(handlers)
    screen,        \* what the last XPutImage put into the window
    stray,         \* a store landed outside the w*h cells of fb.data
    reports,       \* number of messages terminate() has printed
    afterFailure,  \* a display or framebuffer operation ran after a report
    nevents,       \* events read by XNextEvent so far
    ev,            \* main's XEvent e while the handlers run on it
    rpc,           \* SpecRaster: position in the rasterizer call
    line,          \* SpecRaster: the call's arguments
    cur,           \* SpecRaster: locals x0, y0, err, counter of the running loop
    visited,       \* SpecRaster: the points at which the loop body started
    calls,         \* SpecRaster: the put_pixel calls made, in order
    snapped,       \* SpecRaster: the endpoint snap_to_axis left in *x1, *y1
    branch,        \* SpecRaster: the branch snap_to_axis took
    resnapped      \* SpecRaster: snap_to_axis called again on its own result

procVars == <<pc, ctx, state, handlers, screen, stray, reports, afterFailure, nevents, ev>>
rasterVars == <<rpc, line, cur, visited, calls, snapped, branch, resnapped>>
vars == <<pc, ctx, state, handlers, screen, stray, reports, afterFailure, nevents, ev,
          rpc, line, cur, visited, calls, snapped, branch, resnapped>>

----------------------------------------------------------------------------
(* C helpers *)

\* abs() of stdlib on the values the model reaches (no INT_MIN)
Abs(n) == IF n < 0 THEN 0 - n ELSE n

\* (r << 16) | (g << 8) | b for 8-bit channels
PackColor(r, g, b) == r * 65536 + g * 256 + b

White == PackColor(255, 255, 255)
Black == PackColor(0, 0, 0)

\* (unsigned)a >= (unsigned)b on 32-bit two's complement ints: a negative int
\* converts to a value above every non-negative one, and the order within
\* each sign is kept.
UnsignedGE(a, b) == IF (a < 0) = (b < 0) THEN a >= b ELSE a < 0

\* calloc(n, sizeof(uint32_t)): n zeroed cells, indexed from 0
Calloc(n) == [i \in 0 .. (n - 1) |-> 0]

\* memcpy one cell short
Memcpy_short(dst, src, n) == [i \in DOMAIN dst |-> IF i < n - 1 THEN src[i] ELSE dst[i]]

\* memcpy(dst, src, n * sizeof(uint32_t))
Memcpy(dst, src, n) == [i \in DOMAIN dst |-> IF i < n THEN src[i] ELSE dst[i]]

----------------------------------------------------------------------------
(* The machine the handlers work on: what a handler can reach through its *)
(* ctx and state pointers.                                                 *)

Machine == [ctx |-> ctx, state |-> state, screen |-> screen, stray |-> stray]

\* ctx->fb.data[i] = color
Store(m, i, color) ==
    IF i \in DOMAIN m.ctx.fb.data
    THEN [m EXCEPT !.ctx.fb.data[i] = color]
    ELSE [m EXCEPT !.stray = TRUE]

\* XPutImage(ctx->dpy, ctx->win, ctx->gc, ctx->img, 0,0,0,0, ctx->w, ctx->h):
\* the image's data is fb.data itself (XCreateImage was given fb.data)
XPutImage(m) == [m EXCEPT !.screen = m.ctx.fb.data]

RECURSIVE FillFrom(_, _, _)
FillFrom(m, i, color) ==
    IF i < m.ctx.w * m.ctx.h
    THEN FillFrom(Store(m, i, color), i + 1, color)
    ELSE m

\* fill_framebuffer with its loop started at 1
fill_framebuffer_from_1(m, r, g, b) == FillFrom(m, 1, PackColor(r, g, b))

\* fill_framebuffer: for (i = 0; i < ctx->w * ctx->h; ++i) ctx->fb.data[i] = color
fill_framebuffer(m, r, g, b) == FillFrom(m, 0, PackColor(r, g, b))

clear_framebuffer(m) == fill_framebuffer(m, 0, 0, 0)

\* put_pixel without the casts to unsigned: a negative coordinate passes
put_pixel_signed(m, x, y, r, g, b) ==
    IF x >= m.ctx.w \/ y >= m.ctx.h
    THEN m
    ELSE Store(m, y * m.ctx.w + x, PackColor(r, g, b))

put_pixel(m, x, y, r, g, b) ==
    IF UnsignedGE(x, m.ctx.w) \/ UnsignedGE(y, m.ctx.h)
    THEN m
    ELSE Store(m, y * m.ctx.w + x, PackColor(r, g, b))

----------------------------------------------------------------------------
(* Rasterizer *)

\* draw_line_setup that always walks from the left endpoint to the right one
draw_line_setup_left_to_right(ax, ay, bx, by) ==
    LET fx == IF ax > bx THEN bx ELSE ax
        fy == IF ax > bx THEN by ELSE ay
        tx == IF ax > bx THEN ax ELSE bx
        ty == IF ax > bx THEN ay ELSE by
    IN  [x0 |-> fx, y0 |-> fy, x1 |-> tx, y1 |-> ty,
         dx |-> Abs(tx - fx),
         sx |-> IF fx < tx THEN 1 ELSE 0 - 1,
         dy |-> 0 - Abs(ty - fy),
         sy |-> IF fy < ty THEN 1 ELSE 0 - 1,
         err |-> Abs(tx - fx) + (0 - Abs(ty - fy))]

\* draw_line: the locals before the loop (x0, y0 are the moving point)
draw_line_setup(ax, ay, bx, by) ==
    [x0 |-> ax, y0 |-> ay, x1 |-> bx, y1 |-> by,
     dx |-> Abs(bx - ax),
     sx |-> IF ax < bx THEN 1 ELSE 0 - 1,
     dy |-> 0 - Abs(by - ay),
     sy |-> IF ay < by THEN 1 ELSE 0 - 1,
     err |-> Abs(bx - ax) + (0 - Abs(by - ay))]

\* draw_line_advance with the second if made an else-if
draw_line_advance_x_only(l) ==
    LET e2 == 2 * l.err
    IN  IF e2 >= l.dy
        THEN [l EXCEPT !.err = @ + l.dy, !.x0 = @ + l.sx]
        ELSE IF e2 <= l.dx
             THEN [l EXCEPT !.err = @ + l.dx, !.y0 = @ + l.sy]
             ELSE l

\* draw_line_advance with x0 moved by two columns a turn
draw_line_advance_two_steps(l) ==
    LET e2 == 2 * l.err
        a  == IF e2 >= l.dy
              THEN [l EXCEPT !.err = @ + l.dy, !.x0 = @ + 2 * l.sx]
              ELSE l
    IN  IF e2 <= l.dx
        THEN [a EXCEPT !.err = @ + l.dx, !.y0 = @ + l.sy]
        ELSE a

\* draw_line: the loop body after the break test
draw_line_advance(l) ==
    LET e2 == 2 * l.err
        a  == IF e2 >= l.dy
              THEN [l EXCEPT !.err = @ + l.dy, !.x0 = @ + l.sx]
              ELSE l
    IN  IF e2 <= l.dx
        THEN [a EXCEPT !.err = @ + l.dx, !.y0 = @ + l.sy]
        ELSE a

\* draw_line's loop with the endpoint test ahead of put_pixel
RECURSIVE draw_line_loop_open_end(_)
draw_line_loop_open_end(l) ==
    IF l.x0 = l.x1 /\ l.y0 = l.y1
    THEN << >>
    ELSE << <<l.x0, l.y0>> >> \o draw_line_loop_open_end(draw_line_advance(l))

\* draw_line: the put_pixel calls of the loop from locals l on, in order
RECURSIVE draw_line_loop(_)
draw_line_loop(l) ==
    IF l.x0 = l.x1 /\ l.y0 = l.y1
    THEN << <<l.x0, l.y0>> >>
    ELSE << <<l.x0, l.y0>> >> \o draw_line_loop(draw_line_advance(l))

\* draw_dotted_line: the locals before the loop
draw_dotted_line_setup(ax, ay, bx, by) ==
    [x0 |-> ax, y0 |-> ay, x1 |-> bx, y1 |-> by,
     dx |-> Abs(bx - ax),
     sx |-> IF ax < bx THEN 1 ELSE 0 - 1,
     dy |-> 0 - Abs(by - ay),
     sy |-> IF ay < by THEN 1 ELSE 0 - 1,
     err |-> Abs(bx - ax) + (0 - Abs(by - ay)),
     counter |-> 0]

\* draw_dotted_line: whether this iteration calls put_pixel
draw_dotted_line_plots(l) == (l.counter % 10) < 2

\* draw_dotted_line_advance with a counter that runs ahead once the dash is off
draw_dotted_line_advance_count_plotted(l) ==
    LET e2 == 2 * l.err
        c  == IF (l.counter % 10) < 2
              THEN [l EXCEPT !.counter = @ + 1]
              ELSE [l EXCEPT !.counter = @ + 2]
        a  == IF e2 >= l.dy
              THEN [c EXCEPT !.err = @ + l.dy, !.x0 = @ + l.sx]
              ELSE c
    IN  IF e2 <= l.dx
        THEN [a EXCEPT !.err = @ + l.dx, !.y0 = @ + l.sy]
        ELSE a

\* draw_dotted_line: counter++ and the loop body after the break test
draw_dotted_line_advance(l) ==
    LET e2 == 2 * l.err
        c  == [l EXCEPT !.counter = @ + 1]
        a  == IF e2 >= l.dy
              THEN [c EXCEPT !.err = @ + l.dy, !.x0 = @ + l.sx]
              ELSE c
    IN  IF e2 <= l.dx
        THEN [a EXCEPT !.err = @ + l.dx, !.y0 = @ + l.sy]
        ELSE a

\* draw_dotted_line: the put_pixel calls of the loop from locals l on
RECURSIVE draw_dotted_line_loop(_)
draw_dotted_line_loop(l) ==
    LET here == IF draw_dotted_line_plots(l) THEN << <<l.x0, l.y0>> >> ELSE << >>
    IN  IF l.x0 = l.x1 /\ l.y0 = l.y1
        THEN here
        ELSE here \o draw_dotted_line_loop(draw_dotted_line_advance(l))

\* the machine after the put_pixel calls ps[i], ps[i+1], ... in colour r,g,b
RECURSIVE PutPixels(_, _, _, _, _, _)
PutPixels(m, ps, i, r, g, b) ==
    IF i > Len(ps)
    THEN m
    ELSE PutPixels(put_pixel(m, ps[i][1], ps[i][2], r, g, b), ps, i + 1, r, g, b)

draw_line(m, ax, ay, bx, by, r, g, b) ==
    PutPixels(m, draw_line_loop(draw_line_setup(ax, ay, bx, by)), 1, r, g, b)

draw_dotted_line(m, ax, ay, bx, by, r, g, b) ==
    PutPixels(m, draw_dotted_line_loop(draw_dotted_line_setup(ax, ay, bx, by)), 1, r, g, b)

\* snap_to_axis: which of the three branches of the if is taken
snap_to_axis_branch(ax, ay, bx, by) ==
    LET abs_dx == Abs(bx - ax)
        abs_dy == Abs(by - ay)
    IN  IF abs_dx < abs_dy \div 2
        THEN "vertical"
        ELSE IF abs_dy < abs_dx \div 2
             THEN "horizontal"
             ELSE "diagonal"

\* snap_to_axis with the assignments of the first two branches exchanged
snap_to_axis_branches_swapped(ax, ay, bx, by) ==
    LET dx == bx - ax
        dy == by - ay
        abs_dx == Abs(dx)
        abs_dy == Abs(dy)
        min_dist == IF abs_dx < abs_dy THEN abs_dx ELSE abs_dy
    IN  IF abs_dx < abs_dy \div 2
        THEN <<bx, ay>>
        ELSE IF abs_dy < abs_dx \div 2
             THEN <<ax, by>>
             ELSE <<ax + (IF dx > 0 THEN min_dist ELSE 0 - min_dist),
                    ay + (IF dy > 0 THEN min_dist ELSE 0 - min_dist)>>

\* snap_to_axis with the diagonal always taken towards +x, +y
snap_to_axis_unsigned_diagonal(ax, ay, bx, by) ==
    LET dx == bx - ax
        dy == by - ay
        abs_dx == Abs(dx)
        abs_dy == Abs(dy)
        min_dist == IF abs_dx < abs_dy THEN abs_dx ELSE abs_dy
    IN  IF abs_dx < abs_dy \div 2
        THEN <<ax, by>>
        ELSE IF abs_dy < abs_dx \div 2
             THEN <<bx, ay>>
             ELSE <<ax + min_dist, ay + min_dist>>

\* snap_to_axis with the longer distance taken for the diagonal
snap_to_axis_max_dist(ax, ay, bx, by) ==
    LET dx == bx - ax
        dy == by - ay
        abs_dx == Abs(dx)
        abs_dy == Abs(dy)
        min_dist == IF abs_dx < abs_dy THEN abs_dy ELSE abs_dx
    IN  IF abs_dx < abs_dy \div 2
        THEN <<ax, by>>
        ELSE IF abs_dy < abs_dx \div 2
             THEN <<bx, ay>>
             ELSE <<ax + (IF dx > 0 THEN min_dist ELSE 0 - min_dist),
                    ay + (IF dy > 0 THEN min_dist ELSE 0 - min_dist)>>

\* snap_to_axis: the values left in *x1, *y1 (abs_dy / 2 is C's int division
\* of a non-negative int)
snap_to_axis(ax, ay, bx, by) ==
    LET dx == bx - ax
        dy == by - ay
        abs_dx == Abs(dx)
        abs_dy == Abs(dy)
        min_dist == IF abs_dx < abs_dy THEN abs_dx ELSE abs_dy
    IN  IF abs_dx < abs_dy \div 2
        THEN <<ax, by>>
        ELSE IF abs_dy < abs_dx \div 2
             THEN <<bx, ay>>
             ELSE <<ax + (IF dx > 0 THEN min_dist ELSE 0 - min_dist),
                    ay + (IF dy > 0 THEN min_dist ELSE 0 - min_dist)>>

----------------------------------------------------------------------------
(* Events and handlers *)

\* XEvent as the handlers read it: type, xbutton.x, xbutton.y, the ShiftMask
\* and ControlMask bits of xbutton.state, and XLookupKeysym(&e->xkey, 0).
\* Button coordinates reach one pixel outside the canvas on every side.
ButtonPressEvents ==
    [type : {"ButtonPress"}, x : (0 - 1) .. W, y : (0 - 1) .. H,
     shift : BOOLEAN, control : BOOLEAN, keysym : {"NoSymbol"}]

KeyPressEvents ==
    [type : {"KeyPress"}, x : {0}, y : {0}, shift : {FALSE}, control : {FALSE},
     keysym : {"XK_Escape", "XK_q", "XK_c", "XK_C", "XK_a"}]

\* the other events XSelectInput asks for
OtherEvents ==
    [type : {"MotionNotify", "Expose"}, x : {0}, y : {0},
     shift : {FALSE}, control : {FALSE}, keysym : {"NoSymbol"}]

\* e outside the loop body
NoEvent ==
    [type |-> "none", x |-> 0, y |-> 0, shift |-> FALSE, control |-> FALSE,
     keysym |-> "NoSymbol"]

\* handle_keypress with the Clear branch not followed by XPutImage
handle_keypress_no_blit(e, m) ==
    IF e.type # "KeyPress"
    THEN m
    ELSE IF e.keysym = "XK_Escape" \/ e.keysym = "XK_q"
         THEN [m EXCEPT !.state.running = FALSE]
         ELSE IF e.keysym = "XK_c" \/ e.keysym = "XK_C"
              THEN [clear_framebuffer(m) EXCEPT !.state.have_first = FALSE]
              ELSE m

handle_keypress(e, m) ==
    IF e.type # "KeyPress"
    THEN m
    ELSE IF e.keysym = "XK_Escape" \/ e.keysym = "XK_q"
         THEN [m EXCEPT !.state.running = FALSE]
         ELSE IF e.keysym = "XK_c" \/ e.keysym = "XK_C"
              THEN XPutImage([clear_framebuffer(m) EXCEPT !.state.have_first = FALSE])
              ELSE m

\* handle_click_first with the memcpy ahead of the marker's put_pixel
handle_click_first_snapshot_first(e, m) ==
    LET m1 == [m EXCEPT !.state.x0 = e.x, !.state.y0 = e.y,
                        !.state.have_first = TRUE]
        m2 == [m1 EXCEPT !.ctx.fb.saved =
                  Memcpy(@, m1.ctx.fb.data, m1.ctx.w * m1.ctx.h)]
        m3 == put_pixel(m2, e.x, e.y, 255, 255, 255)
    IN  XPutImage(m3)

\* handle_click_first that also records the modifier mask in state->modifiers
handle_click_first_keeps_modifiers(e, m) ==
    LET m1 == [m EXCEPT !.state.x0 = e.x, !.state.y0 = e.y,
                        !.state.have_first = TRUE,
                        !.state.modifiers = (IF e.shift THEN 1 ELSE 0)
                                            + (IF e.control THEN 4 ELSE 0)]
        m2 == put_pixel(m1, e.x, e.y, 255, 255, 255)
        m3 == [m2 EXCEPT !.ctx.fb.saved =
                  Memcpy(@, m2.ctx.fb.data, m2.ctx.w * m2.ctx.h)]
    IN  XPutImage(m3)

\* handle_click_first with the memcpy arguments exchanged
handle_click_first_restores(e, m) ==
    LET m1 == [m EXCEPT !.state.x0 = e.x, !.state.y0 = e.y,
                        !.state.have_first = TRUE]
        m2 == put_pixel(m1, e.x, e.y, 255, 255, 255)
        m3 == [m2 EXCEPT !.ctx.fb.data =
                  Memcpy(@, m2.ctx.fb.saved, m2.ctx.w * m2.ctx.h)]
    IN  XPutImage(m3)

\* handle_click, the branch !state->have_first
handle_click_first(e, m) ==
    LET m1 == [m EXCEPT !.state.x0 = e.x, !.state.y0 = e.y,
                        !.state.have_first = TRUE]
        m2 == put_pixel(m1, e.x, e.y, 255, 255, 255)
        m3 == [m2 EXCEPT !.ctx.fb.saved =
                  Memcpy(@, m2.ctx.fb.data, m2.ctx.w * m2.ctx.h)]
    IN  XPutImage(m3)

\* handle_click_second with the two modifier tests exchanged
handle_click_second_masks_swapped(e, m) ==
    LET m1 == [m EXCEPT !.ctx.fb.data =
                  Memcpy(@, m.ctx.fb.saved, m.ctx.w * m.ctx.h)]
        p  == IF e.control
              THEN snap_to_axis(m1.state.x0, m1.state.y0, e.x, e.y)
              ELSE <<e.x, e.y>>
        m2 == IF e.shift
              THEN draw_dotted_line(m1, m1.state.x0, m1.state.y0,
                                    p[1], p[2], 255, 255, 255)
              ELSE draw_line(m1, m1.state.x0, m1.state.y0,
                             p[1], p[2], 255, 255, 255)
        m3 == [m2 EXCEPT !.state.have_first = FALSE]
    IN  XPutImage(m3)

\* handle_click_second with a memcpy into saved after the line is drawn
handle_click_second_snapshots(e, m) ==
    LET m1 == [m EXCEPT !.ctx.fb.data =
                  Memcpy(@, m.ctx.fb.saved, m.ctx.w * m.ctx.h)]
        p  == IF e.shift
              THEN snap_to_axis(m1.state.x0, m1.state.y0, e.x, e.y)
              ELSE <<e.x, e.y>>
        m2 == IF e.control
              THEN draw_dotted_line(m1, m1.state.x0, m1.state.y0,
                                    p[1], p[2], 255, 255, 255)
              ELSE draw_line(m1, m1.state.x0, m1.state.y0,
                             p[1], p[2], 255, 255, 255)
        m3 == [m2 EXCEPT !.state.have_first = FALSE,
                         !.ctx.fb.saved =
                             Memcpy(@, m2.ctx.fb.data, m2.ctx.w * m2.ctx.h)]
    IN  XPutImage(m3)

\* handle_click, the else branch
handle_click_second(e, m) ==
    LET m1 == [m EXCEPT !.ctx.fb.data =
                  Memcpy(@, m.ctx.fb.saved, m.ctx.w * m.ctx.h)]
        p  == IF e.shift
              THEN snap_to_axis(m1.state.x0, m1.state.y0, e.x, e.y)
              ELSE <<e.x, e.y>>
        m2 == IF e.control
              THEN draw_dotted_line(m1, m1.state.x0, m1.state.y0,
                                    p[1], p[2], 255, 255, 255)
              ELSE draw_line(m1, m1.state.x0, m1.state.y0,
                             p[1], p[2], 255, 255, 255)
        m3 == [m2 EXCEPT !.state.have_first = FALSE]
    IN  XPutImage(m3)

\* handle_click without the test of e->type
handle_click_any_event(e, m) ==
    IF ~m.state.have_first
    THEN handle_click_first(e, m)
    ELSE handle_click_second(e, m)

handle_click(e, m) ==
    IF e.type # "ButtonPress"
    THEN m
    ELSE IF ~m.state.have_first
         THEN handle_click_first(e, m)
         ELSE handle_click_second(e, m)

\* register_handler(h) on the array hs
register_handler(hs, h) == IF Len(hs) < MAX_HANDLERS THEN Append(hs, h) ELSE hs

\* handlers[i](&e, &ctx, &state): the function the i-th slot points to
CallHandler(h, e, m) ==
    IF h = "handle_keypress" THEN handle_keypress(e, m) ELSE handle_click(e, m)

\* main: the handlers from slot i on, called in order on e
RECURSIVE Dispatch(_, _, _)
Dispatch(i, e, m) ==
    IF i > Len(handlers)
    THEN m
    ELSE Dispatch(i + 1, e, CallHandler(handlers[i], e, m))

----------------------------------------------------------------------------
(* The process *)

Init ==
    /\ pc = "XOpenDisplay"
    /\ ctx = [dpy |-> "unset", img |-> "unset", w |-> 0, h |-> 0,
              fb |-> [data |-> Calloc(0), saved |-> Calloc(0)]]
    /\ state = [running |-> TRUE, have_first |-> FALSE, x0 |-> 0, y0 |-> 0,
                modifiers |-> 0]
    /\ handlers = << >>
    /\ screen = Calloc(0)
    /\ stray = FALSE
    /\ reports = 0
    /\ afterFailure = FALSE
    /\ nevents = 0
    /\ ev = NoEvent
    /\ rpc = "off"
    /\ line = [x0 |-> 0, y0 |-> 0, x1 |-> 0, y1 |-> 0]
    /\ cur = draw_dotted_line_setup(0, 0, 0, 0)
    /\ visited = << >>
    /\ calls = << >>
    /\ snapped = <<0, 0>>
    /\ branch = "none"
    /\ resnapped = <<0, 0>>

\* init_display: XOpenDisplay(NULL); terminate() prints and returns
OpenDisplay ==
    /\ pc = "XOpenDisplay"
    /\ \E d \in {"open", "NULL"} :
          /\ ctx' = [ctx EXCEPT !.dpy = d]
          /\ reports' = IF d = "NULL" THEN reports + 1 ELSE reports
    /\ pc' = "XCreateSimpleWindow"
    /\ UNCHANGED <<state, handlers, screen, stray, afterFailure, nevents, ev>>
    /\ UNCHANGED rasterVars

\* init_display: DefaultScreen(dpy) .. XCreateGC.  With dpy NULL the
\* DefaultScreen macro reads through a null pointer: the process is killed
\* or goes on in a state the C standard does not define.
CreateWindow ==
    /\ pc = "XCreateSimpleWindow"
    /\ IF ctx.dpy = "NULL"
       THEN /\ pc' \in {"crashed", "undefined"}
            /\ afterFailure' = TRUE
            /\ ctx' = ctx
       ELSE /\ pc' = "XCreateImage"
            /\ afterFailure' = afterFailure
            /\ ctx' = [ctx EXCEPT !.fb = [data |-> Calloc(W * H), saved |-> Calloc(W * H)]]
    /\ UNCHANGED <<state, handlers, screen, stray, reports, nevents, ev>>
    /\ UNCHANGED rasterVars

\* init_display: XCreateImage, terminate() on NULL (which returns), the ctx
\* fields, clear_framebuffer(&ctx), return ctx
CreateImage ==
    /\ pc = "XCreateImage"
    /\ \E i \in {"created", "NULL"} :
          LET m == clear_framebuffer([Machine EXCEPT !.ctx.img = i, !.ctx.w = W, !.ctx.h = H])
          IN  /\ ctx' = m.ctx
              /\ stray' = m.stray
              /\ reports' = IF i = "NULL" THEN reports + 1 ELSE reports
              /\ afterFailure' = (afterFailure \/ i = "NULL")
    /\ pc' = "render_frame"
    /\ UNCHANGED <<state, handlers, screen, nevents, ev>>
    /\ UNCHANGED rasterVars

\* main: InputState state = {...}; render_frame(&ctx); register_handler x 2.
\* XPutImage with a NULL image reads through a null pointer.
RenderFrame ==
    /\ pc = "render_frame"
    /\ IF ctx.img = "NULL"
       THEN /\ pc' \in {"crashed", "undefined"}
            /\ UNCHANGED <<state, handlers, screen>>
       ELSE /\ pc' = "XNextEvent"
            /\ state' = [running |-> TRUE, have_first |-> FALSE, x0 |-> 0, y0 |-> 0,
                         modifiers |-> 0]
            /\ screen' = XPutImage(Machine).screen
            /\ handlers' = register_handler(register_handler(handlers, "handle_keypress"),
                                            "handle_click")
    /\ UNCHANGED <<ctx, stray, reports, afterFailure, nevents, ev>>
    /\ UNCHANGED rasterVars

\* main: while (state.running) { XEvent e; XNextEvent(ctx.dpy, &e); ...
XNextEvent(e) ==
    /\ pc = "XNextEvent"
    /\ state.running
    /\ nevents < MaxEvents
    /\ ev' = e
    /\ nevents' = nevents + 1
    /\ pc' = "handlers"
    /\ UNCHANGED <<ctx, state, handlers, screen, stray, reports, afterFailure>>
    /\ UNCHANGED rasterVars

ButtonPress == \E e \in ButtonPressEvents : XNextEvent(e)

KeyPress == \E e \in KeyPressEvents : XNextEvent(e)

OtherEvent == \E e \in OtherEvents : XNextEvent(e)

\* main: for (i = 0; i < handler_count; i++) handlers[i](&e, &ctx, &state);
\* then back to the loop test
RunHandlers ==
    /\ pc = "handlers"
    /\ LET m == Dispatch(1, ev, Machine)
       IN  /\ ctx' = m.ctx
           /\ state' = m.state
           /\ screen' = m.screen
           /\ stray' = m.stray
    /\ ev' = NoEvent
    /\ pc' = "XNextEvent"
    /\ UNCHANGED <<handlers, reports, afterFailure, nevents>>
    /\ UNCHANGED rasterVars

\* main: the loop ends when state.running is false; cleanup_display(&ctx)
Cleanup ==
    /\ pc = "XNextEvent"
    /\ ~state.running
    /\ pc' = "exited"
    /\ ctx' = [ctx EXCEPT !.img = "destroyed", !.dpy = "closed"]
    /\ UNCHANGED <<state, handlers, screen, stray, reports, afterFailure, nevents, ev>>
    /\ UNCHANGED rasterVars

Next ==
    \/ OpenDisplay
    \/ CreateWindow
    \/ CreateImage
    \/ RenderFrame
    \/ ButtonPress
    \/ KeyPress
    \/ OtherEvent
    \/ RunHandlers
    \/ Cleanup

Spec == Init /\ [][Next]_vars

----------------------------------------------------------------------------
(* The rasterizer on its own: one call of draw_line, draw_dotted_line or  *)
(* snap_to_axis on endpoints of the square (-1 .. MaxCoord)^2, the loops   *)
(* taken one iteration per step.                                           *)

RCoord == (0 - 1) .. MaxCoord

InitRaster ==
    /\ pc = "XOpenDisplay"
    /\ ctx = [dpy |-> "unset", img |-> "unset", w |-> 0, h |-> 0,
              fb |-> [data |-> Calloc(0), saved |-> Calloc(0)]]
    /\ state = [running |-> TRUE, have_first |-> FALSE, x0 |-> 0, y0 |-> 0,
                modifiers |-> 0]
    /\ handlers = << >>
    /\ screen = Calloc(0)
    /\ stray = FALSE
    /\ reports = 0
    /\ afterFailure = FALSE
    /\ nevents = 0
    /\ ev = NoEvent
    /\ rpc = "call"
    /\ line \in [x0 : RCoord, y0 : RCoord, x1 : RCoord, y1 : RCoord]
    /\ cur = draw_dotted_line_setup(0, 0, 0, 0)
    /\ visited = << >>
    /\ calls = << >>
    /\ snapped = <<0, 0>>
    /\ branch = "none"
    /\ resnapped = <<0, 0>>

\* draw_line entered: lines 163-167
CallDrawLine ==
    /\ rpc = "call"
    /\ rpc' = "draw_line"
    /\ cur' = draw_line_setup(line.x0, line.y0, line.x1, line.y1)
    /\ UNCHANGED <<line, visited, calls, snapped, branch, resnapped>>
    /\ UNCHANGED procVars

\* draw_line: one turn of while (1)
DrawLineIter ==
    /\ rpc = "draw_line"
    /\ visited' = Append(visited, <<cur.x0, cur.y0>>)
    /\ calls' = Append(calls, <<cur.x0, cur.y0>>)
    /\ IF cur.x0 = cur.x1 /\ cur.y0 = cur.y1
       THEN /\ rpc' = "draw_line returned"
            /\ cur' = cur
       ELSE /\ rpc' = rpc
            /\ cur' = draw_line_advance(cur)
    /\ UNCHANGED <<line, snapped, branch, resnapped>>
    /\ UNCHANGED procVars

\* draw_dotted_line entered: lines 193-199
CallDrawDottedLine ==
    /\ rpc = "call"
    /\ rpc' = "draw_dotted_line"
    /\ cur' = draw_dotted_line_setup(line.x0, line.y0, line.x1, line.y1)
    /\ UNCHANGED <<line, visited, calls, snapped, branch, resnapped>>
    /\ UNCHANGED procVars

\* draw_dotted_line: one turn of while (1)
DrawDottedLineIter ==
    /\ rpc = "draw_dotted_line"
    /\ visited' = Append(visited, <<cur.x0, cur.y0>>)
    /\ calls' = IF draw_dotted_line_plots(cur)
                THEN Append(calls, <<cur.x0, cur.y0>>)
                ELSE calls
    /\ IF cur.x0 = cur.x1 /\ cur.y0 = cur.y1
       THEN /\ rpc' = "draw_dotted_line returned"
            /\ cur' = [cur EXCEPT !.counter = @ + 1]
       ELSE /\ rpc' = rpc
            /\ cur' = draw_dotted_line_advance(cur)
    /\ UNCHANGED <<line, snapped, branch, resnapped>>
    /\ UNCHANGED procVars

\* snap_to_axis(ctx, x0, y0, &x1, &y1)
CallSnapToAxis ==
    /\ rpc = "call"
    /\ rpc' = "snap_to_axis returned"
    /\ snapped' = snap_to_axis(line.x0, line.y0, line.x1, line.y1)
    /\ branch' = snap_to_axis_branch(line.x0, line.y0, line.x1, line.y1)
    /\ UNCHANGED <<line, cur, visited, calls, resnapped>>
    /\ UNCHANGED procVars

\* snap_to_axis(ctx, x0, y0, &x1, &y1) once more, x1 and y1 holding what the
\* first call left in them
CallSnapToAxisAgain ==
    /\ rpc = "snap_to_axis returned"
    /\ rpc' = "snap_to_axis returned twice"
    /\ resnapped' = snap_to_axis(line.x0, line.y0, snapped[1], snapped[2])
    /\ UNCHANGED <<line, cur, visited, calls, snapped, branch>>
    /\ UNCHANGED procVars

NextRaster ==
    \/ CallDrawLine
    \/ DrawLineIter
    \/ CallDrawDottedLine
    \/ DrawDottedLineIter
    \/ CallSnapToAxis
    \/ CallSnapToAxisAgain

SpecRaster == InitRaster /\ [][NextRaster]_vars

\* a call that has entered its loop keeps executing it
SpecRasterFair ==
    SpecRaster /\ WF_vars(DrawLineIter) /\ WF_vars(DrawDottedLineIter)

----------------------------------------------------------------------------
(* Properties *)

Range(f) == {f[i] : i \in DOMAIN f}

Data == ctx.fb.data
Saved == ctx.fb.saved

InCanvas(x, y) == 0 <= x /\ x < W /\ 0 <= y /\ y < H

WhiteCells(buf) == {i \in DOMAIN buf : buf[i] = White}

\* the handlers are about to run on a ButtonPress / on a Clear key
AtButtonPress == pc = "handlers" /\ ev.type = "ButtonPress"
AtClear == pc = "handlers" /\ ev.type = "KeyPress" /\ ev.keysym \in {"XK_c", "XK_C"}

\* the endpoint and the put_pixel calls the second click e asks for, from the
\* anchor (ax, ay)
SegmentEnd(ax, ay, e) ==
    IF e.shift THEN snap_to_axis(ax, ay, e.x, e.y) ELSE <<e.x, e.y>>

SegmentCalls(ax, ay, e) ==
    LET p == SegmentEnd(ax, ay, e)
    IN  IF e.control
        THEN draw_dotted_line_loop(draw_dotted_line_setup(ax, ay, p[1], p[2]))
        ELSE draw_line_loop(draw_line_setup(ax, ay, p[1], p[2]))

\* C1: a ButtonPress handled while an anchor is pending leaves have_first
\* false and a live buffer equal to the saved snapshot with white at exactly
\* the cells (column i % W, row i \div W) that the line from the anchor to the
\* endpoint plots: the endpoint is snap_to_axis' result under Shift and the
\* click otherwise, the routine draw_dotted_line under Control and draw_line
\* otherwise.
C1_SecondClickCommits ==
    [][(AtButtonPress /\ state.have_first) =>
          /\ state'.have_first = FALSE
          /\ ctx'.fb.data =
                [i \in 0 .. (W * H - 1) |->
                    IF <<i % W, i \div W>> \in Range(SegmentCalls(state.x0, state.y0, ev))
                    THEN White
                    ELSE Saved[i]]]_vars

\* a segment of at least two canvas pixels was committed over its snapshot
C1_Witness ==
    /\ pc = "XNextEvent"
    /\ ~state.have_first
    /\ nevents = 2
    /\ Cardinality(WhiteCells(Saved)) = 1
    /\ Cardinality(WhiteCells(Data)) >= 2

\* C2: a ButtonPress handled while no anchor is pending records the click as
\* the anchor, sets have_first, turns the cell of (x, y) white when (x, y) is
\* inside the canvas, changes no other live cell, and leaves the snapshot
\* equal to the live buffer, marker included.
C2_FirstClickAnchors ==
    [][(AtButtonPress /\ ~state.have_first) =>
          /\ state'.x0 = ev.x
          /\ state'.y0 = ev.y
          /\ state'.have_first = TRUE
          /\ ctx'.fb.data =
                [i \in 0 .. (W * H - 1) |->
                    IF InCanvas(ev.x, ev.y) /\ i = ev.y * W + ev.x
                    THEN White
                    ELSE Data[i]]
          /\ ctx'.fb.saved = ctx'.fb.data]_vars

\* an anchor inside the canvas is pending over an earlier segment; its marker
\* is white in both buffers
C2_Witness ==
    /\ pc = "XNextEvent"
    /\ state.have_first
    /\ nevents = 3
    /\ InCanvas(state.x0, state.y0)
    /\ Data[state.y0 * W + state.x0] = White
    /\ Cardinality(WhiteCells(Data)) >= 3
    /\ Saved = Data

\* C3: a Clear key (c or C) handled in either interaction state leaves
\* have_first false and every live cell background, and handling the same
\* key once more changes neither the buffers nor the interaction state.
C3_ClearResets ==
    [][AtClear =>
          /\ state'.have_first = FALSE
          /\ \A i \in 0 .. (W * H - 1) : ctx'.fb.data[i] = Black
          /\ LET m  == [ctx |-> ctx', state |-> state', screen |-> screen',
                        stray |-> stray']
                 m2 == Dispatch(1, ev, m)
             IN  m2.ctx = m.ctx /\ m2.state = m.state]_vars

\* a Clear key was handled after a click had drawn and taken its snapshot
C3_Witness ==
    /\ pc = "XNextEvent"
    /\ nevents = 3
    /\ ~state.have_first
    /\ WhiteCells(Saved) # {}
    /\ WhiteCells(Data) = {}

----------------------------------------------------------------------------
(* Rasterizer properties, stated on SpecRaster *)

Max(a, b) == IF a > b THEN a ELSE b

\* the put_pixel calls of draw_line(ax, ay, bx, by), as a set of points
LinePixels(ax, ay, bx, by) == Range(draw_line_loop(draw_line_setup(ax, ay, bx, by)))

\* C4 as stated: draw_line visits the same pixel set with its endpoints
\* swapped.
C4_EndpointSymmetry ==
    rpc = "draw_line returned" =>
        Range(calls) = LinePixels(line.x1, line.y1, line.x0, line.y0)

\* C4, amended: the pixel set of draw_line with its endpoints swapped is the
\* point reflection of the forward set through the segment's midpoint,
\* (x, y) -> (x0 + x1 - x, y0 + y1 - y); both sets hold both endpoints; and
\* the two sets are equal when the segment is horizontal, vertical or an
\* exact diagonal.
C4_ReflectedSymmetry ==
    rpc = "draw_line returned" =>
        LET back == LinePixels(line.x1, line.y1, line.x0, line.y0)
        IN  /\ back = {<<line.x0 + line.x1 - q[1], line.y0 + line.y1 - q[2]>> :
                          q \in Range(calls)}
            /\ {<<line.x0, line.y0>>, <<line.x1, line.y1>>} \subseteq Range(calls)
            /\ {<<line.x0, line.y0>>, <<line.x1, line.y1>>} \subseteq back
            /\ (\/ line.x0 = line.x1
                \/ line.y0 = line.y1
                \/ Abs(line.x1 - line.x0) = Abs(line.y1 - line.y0))
                  => Range(calls) = back

\* a slanted line whose reverse visits other pixels has been drawn
C4_Witness ==
    /\ rpc = "draw_line returned"
    /\ line = [x0 |-> 0, y0 |-> 0, x1 |-> 2, y1 |-> 1]
    /\ Range(calls) # LinePixels(2, 1, 0, 0)

\* C5: the put_pixel calls of draw_line start at (x0, y0), end at (x1, y1),
\* move by at most 1 in x and in y between consecutive calls, never repeat a
\* point, and number max(|x1-x0|, |y1-y0|) + 1; equal endpoints give the one
\* call (x0, y0).
C5_SolidTraversalShape ==
    rpc = "draw_line returned" =>
        /\ calls[1] = <<line.x0, line.y0>>
        /\ calls[Len(calls)] = <<line.x1, line.y1>>
        /\ \A k \in 1 .. (Len(calls) - 1) :
              /\ Abs(calls[k + 1][1] - calls[k][1]) <= 1
              /\ Abs(calls[k + 1][2] - calls[k][2]) <= 1
        /\ \A j, k \in 1 .. Len(calls) : j # k => calls[j] # calls[k]
        /\ Len(calls) = Max(Abs(line.x1 - line.x0), Abs(line.y1 - line.y0)) + 1
        /\ (line.x0 = line.x1 /\ line.y0 = line.y1) => calls = << <<line.x0, line.y0>> >>

\* a long slanted line, neither axis-parallel nor diagonal, has been drawn
C5_Witness ==
    /\ rpc = "draw_line returned"
    /\ Len(calls) >= 8
    /\ Abs(line.y1 - line.y0) >= 3
    /\ Abs(line.x1 - line.x0) > Abs(line.y1 - line.y0)
    /\ line.x1 < line.x0

\* the result C7 states: the branch tests on exact halves
ExactHalvesSnap(ax, ay, bx, by) ==
    LET adx == Abs(bx - ax)
        ady == Abs(by - ay)
        m == IF adx < ady THEN adx ELSE ady
    IN  IF 2 * adx < ady
        THEN <<ax, by>>
        ELSE IF 2 * ady < adx
             THEN <<bx, ay>>
             ELSE <<ax + (IF bx > ax THEN m ELSE 0 - m),
                    ay + (IF by > ay THEN m ELSE 0 - m)>>

\* C7 as stated: snap_to_axis returns (x0, y1) when adx < ady/2, else (x1, y0)
\* when ady < adx/2, else the diagonal point at distance min(adx, ady), the
\* halves being exact (2*adx < ady, 2*ady < adx).
C7_ExactHalvesBranches ==
    rpc = "snap_to_axis returned" =>
        snapped = ExactHalvesSnap(line.x0, line.y0, line.x1, line.y1)

\* C9: draw_dotted_line walks the point sequence of draw_line for the same
\* endpoints, its counter counts every turn of the loop, and it calls
\* put_pixel on the c-th point (from 0) iff c mod 10 < 2; so its pixels are
\* among the solid line's and include (x0, y0).
C9_DottedPattern ==
    /\ rpc = "draw_dotted_line" => cur.counter = Len(visited)
    /\ rpc = "draw_dotted_line returned" =>
          /\ visited = draw_line_loop(draw_line_setup(line.x0, line.y0, line.x1, line.y1))
          /\ cur.counter = Len(visited)
          /\ Len(calls) = Cardinality({c \in 0 .. (Len(visited) - 1) : (c % 10) < 2})
          /\ \A j \in 1 .. Len(calls) :
                calls[j] = visited[10 * ((j - 1) \div 2) + ((j - 1) % 2) + 1]
          /\ Range(calls) \subseteq LinePixels(line.x0, line.y0, line.x1, line.y1)
          /\ <<line.x0, line.y0>> \in Range(calls)

\* a dotted line long enough to start its second dash has been drawn
C9_Witness ==
    /\ rpc = "draw_dotted_line returned"
    /\ Len(visited) >= 12
    /\ Len(calls) = 4
    /\ calls[3] = visited[11]

----------------------------------------------------------------------------
(* Process properties, continued *)

\* coordinates put_pixel is tried on: around the canvas, and at the ends of int
NearX == ((0 - W) - 1) .. (2 * W)
NearY == ((0 - H) - 1) .. (2 * H)
IntEnds == {0 - 2147483647, 2147483647}

\* what C6 says put_pixel(x, y) does to the machine
BoundsSafeOn(x, y) ==
    put_pixel(Machine, x, y, 255, 255, 255) =
        IF InCanvas(x, y)
        THEN [Machine EXCEPT !.ctx.fb.data[y * W + x] = White]
        ELSE Machine

\* C6: whenever the event loop is about to read an event, put_pixel on any (x, y), negative ones
\* included, stores white into cell y*W+x and nothing else when 0 <= x < W and
\* 0 <= y < H, and otherwise changes nothing; and no store of any handler has
\* landed outside the W*H cells of the live buffer.
C6_PutPixelBoundsSafe ==
    /\ stray = FALSE
    /\ pc = "XNextEvent" =>
          /\ DOMAIN Data = 0 .. (W * H - 1)
          /\ \A x \in NearX, y \in NearY : BoundsSafeOn(x, y)
          /\ \A x \in IntEnds, y \in NearY \cup IntEnds : BoundsSafeOn(x, y)
          /\ \A x \in NearX, y \in IntEnds : BoundsSafeOn(x, y)

\* a segment between two points outside the canvas has crossed it: calls on
\* both sides of the bounds test were made, and nothing strayed
C6_Witness ==
    /\ pc = "XNextEvent"
    /\ nevents = 2
    /\ ~state.have_first
    /\ ~InCanvas(state.x0, state.y0)
    /\ state.x0 < 0
    /\ WhiteCells(Data) # {}
    /\ WhiteCells(Saved) = {}
    /\ stray = FALSE

\* C8 as stated: once terminate() has reported a failure to open the display
\* or to create the image, it has reported once, the process has ended, no
\* display or framebuffer operation has run since, and the event loop is not
\* entered.
C8_FatalAtStartup ==
    reports > 0 =>
        /\ reports = 1
        /\ pc = "exited"
        /\ ~afterFailure

\* C10: a live cell that is white stays white over every step of the process
\* except the handling of a Clear key; in particular no ButtonPress, whatever
\* its modifiers, turns a white cell back.
C10_CommittedPixelsStay ==
    [][(\E i \in DOMAIN Data : Data[i] = White /\ ctx'.fb.data[i] # White) => AtClear]_vars

\* a second segment was committed over a snapshot holding an earlier one
C10_Witness ==
    /\ pc = "XNextEvent"
    /\ nevents = 4
    /\ ~state.have_first
    /\ Cardinality(WhiteCells(Saved)) >= 3
    /\ Cardinality(WhiteCells(Data)) > Cardinality(WhiteCells(Saved))

----------------------------------------------------------------------------
(* snap_to_axis properties, stated on SpecRaster *)

\* C11: snap_to_axis called on its own result, with the same anchor, returns
\* that result again.
C11_SnapIdempotent ==
    rpc = "snap_to_axis returned twice" => resnapped = snapped

\* each branch has been taken by a first call that moved the endpoint, and the
\* second call has returned
C11_WitnessVertical ==
    /\ rpc = "snap_to_axis returned twice"
    /\ branch = "vertical"
    /\ snapped # <<line.x1, line.y1>>

C11_Witness ==
    /\ rpc = "snap_to_axis returned twice"
    /\ branch = "diagonal"
    /\ snapped # <<line.x1, line.y1>>
    /\ snapped # <<line.x0, line.y0>>

\* C12: when |x1-x0| = |y1-y0| (both zero included) snap_to_axis takes the
\* diagonal branch and returns (x1, y1) unchanged.
C12_TieTakesDiagonal ==
    (rpc = "snap_to_axis returned"
        /\ Abs(line.x1 - line.x0) = Abs(line.y1 - line.y0)) =>
            /\ branch = "diagonal"
            /\ snapped = <<line.x1, line.y1>>

\* a tie towards -x, +y, away from the anchor, has been snapped
C12_Witness ==
    /\ rpc = "snap_to_axis returned"
    /\ line.x1 - line.x0 = 0 - 3
    /\ line.y1 - line.y0 = 3
    /\ snapped = <<line.x1, line.y1>>

\* C19: the point snap_to_axis returns has the anchor's x, or the anchor's y,
\* or equal distances from the anchor in x and y, and is no farther from the
\* anchor than the given endpoint in either coordinate.
C19_SnappedOnAxis ==
    rpc = "snap_to_axis returned" =>
        LET sdx == Abs(snapped[1] - line.x0)
            sdy == Abs(snapped[2] - line.y0)
        IN  /\ (snapped[1] = line.x0 \/ snapped[2] = line.y0 \/ sdx = sdy)
            /\ sdx <= Abs(line.x1 - line.x0)
            /\ sdy <= Abs(line.y1 - line.y0)

\* an endpoint off every axis has been pulled onto the diagonal
C19_Witness ==
    /\ rpc = "snap_to_axis returned"
    /\ branch = "diagonal"
    /\ Abs(line.x1 - line.x0) = 5
    /\ Abs(line.y1 - line.y0) = 3
    /\ Abs(snapped[1] - line.x0) = 3
    /\ snapped[2] = line.y1

----------------------------------------------------------------------------
(* Event loop properties, stated on Spec *)

\* C13: whenever the event loop holds a pending anchor (have_first, before or
\* after an event is read) the saved snapshot equals the live buffer cell for
\* cell, so the memcpy from saved at the second click leaves the live buffer
\* as it is.
C13_SnapshotEqualsLive ==
    (pc \in {"XNextEvent", "handlers"} /\ state.have_first) =>
        /\ Saved = Data
        /\ Memcpy(Data, Saved, ctx.w * ctx.h) = Data

\* a second click is about to restore from a snapshot that holds an earlier
\* segment and the marker
C13_Witness ==
    /\ AtButtonPress
    /\ state.have_first
    /\ InCanvas(state.x0, state.y0)
    /\ Cardinality(WhiteCells(Saved)) >= 3
    /\ Saved = Data

\* the cells of column x between rows ya and yb
ColumnCells(x, ya, yb) ==
    {y * W + x : y \in (IF ya < yb THEN ya ELSE yb) .. (IF ya < yb THEN yb ELSE ya)}

\* C14: a ButtonPress without modifiers at (x, yb) inside the canvas, handled
\* while the anchor (x, ya) inside the canvas is pending over an otherwise
\* background canvas, leaves white exactly the |yb-ya|+1 cells of column x
\* between ya and yb, every other cell background, and have_first false; and
\* draw_line between two points of one column visits exactly the points of
\* that column between them, for all rows up to MaxCoord (the 6 points
\* (2,2)..(2,7) among them).
C14_VerticalSegment ==
    [][(/\ AtButtonPress
        /\ state.have_first
        /\ ~ev.shift
        /\ ~ev.control
        /\ ev.x = state.x0
        /\ InCanvas(state.x0, state.y0)
        /\ InCanvas(ev.x, ev.y)
        /\ WhiteCells(Data) = {state.y0 * W + state.x0}) =>
          /\ state'.have_first = FALSE
          /\ WhiteCells(ctx'.fb.data) = ColumnCells(ev.x, state.y0, ev.y)
          /\ Cardinality(WhiteCells(ctx'.fb.data)) = Abs(ev.y - state.y0) + 1
          /\ \A i \in 0 .. (W * H - 1) :
                i \notin ColumnCells(ev.x, state.y0, ev.y) => ctx'.fb.data[i] = Black
          /\ \A ya, yb \in 0 .. MaxCoord :
                /\ LinePixels(ev.x, ya, ev.x, yb) =
                      {<<ev.x, y>> : y \in (IF ya < yb THEN ya ELSE yb) ..
                                           (IF ya < yb THEN yb ELSE ya)}
                /\ Len(draw_line_loop(draw_line_setup(ev.x, ya, ev.x, yb))) =
                      Abs(yb - ya) + 1]_vars

\* two clicks on a cleared canvas have left a full column white and nothing
\* else
C14_Witness ==
    /\ pc = "XNextEvent"
    /\ nevents = 2
    /\ ~state.have_first
    /\ Cardinality(WhiteCells(Saved)) = 1
    /\ WhiteCells(Data) = ColumnCells(W - 1, 0, H - 1)

\* C16: over the steps of the event loop the saved buffer is written only by
\* the handling of a ButtonPress with no anchor pending, and then receives the
\* live buffer with the marker already in it; a ButtonPress with an anchor
\* pending (which draws the line), a Clear key and every other event leave it
\* as it was.
C16_SnapshotOnAnchorOnly ==
    [][(pc \in {"XNextEvent", "handlers"}) =>
          (IF AtButtonPress /\ ~state.have_first
          THEN /\ ctx'.fb.saved = ctx'.fb.data
               /\ ctx'.fb.saved =
                     [i \in 0 .. (W * H - 1) |->
                         IF InCanvas(ev.x, ev.y) /\ i = ev.y * W + ev.x
                         THEN White
                         ELSE Data[i]]
          ELSE ctx'.fb.saved = Saved)]_vars

\* after an anchor click and a second click the snapshot holds the marker
\* alone while the live buffer holds the line
C16_Witness ==
    /\ pc = "XNextEvent"
    /\ nevents = 3
    /\ ~state.have_first
    /\ InCanvas(state.x0, state.y0)
    /\ WhiteCells(Saved) = {state.y0 * W + state.x0}
    /\ Cardinality(WhiteCells(Data)) >= 2

\* the machine after the handlers have run
MachineNext == [ctx |-> ctx', state |-> state', screen |-> screen', stray |-> stray']

\* values of state->modifiers tried for the second click
ModifierValues == {0, 1, 4, 5}

\* C17: the handling of a ButtonPress with no anchor pending gives the same
\* machine whatever Shift and Control are in that event; the handling of a
\* ButtonPress with an anchor pending gives the same buffers, screen and
\* interaction state whatever value state->modifiers holds; and no step of the
\* event loop changes state->modifiers.
C17_ModifiersPerClick ==
    [][(pc \in {"XNextEvent", "handlers"}) =>
          /\ state'.modifiers = state.modifiers
          /\ (AtButtonPress /\ ~state.have_first) =>
                \A s, c \in BOOLEAN :
                    Dispatch(1, [ev EXCEPT !.shift = s, !.control = c], Machine)
                        = MachineNext
          /\ (AtButtonPress /\ state.have_first) =>
                \A v \in ModifierValues :
                    LET m == Dispatch(1, ev, [Machine EXCEPT !.state.modifiers = v])
                    IN  /\ m.ctx = ctx'
                        /\ m.screen = screen'
                        /\ m.state = [state' EXCEPT !.modifiers = v]]_vars

\* a second click with Shift held is about to be handled, its Shift changes
\* what is drawn, and nothing of the first click's modifiers is in the state
C17_Witness ==
    /\ AtButtonPress
    /\ state.have_first
    /\ ev.shift
    /\ state.modifiers = 0
    /\ Dispatch(1, ev, Machine).ctx.fb.data
          # Dispatch(1, [ev EXCEPT !.shift = FALSE], Machine).ctx.fb.data

\* C18: whenever the event loop is about to read an event, the image last
\* sent by XPutImage equals the live buffer.
C18_ScreenFollowsData ==
    pc = "XNextEvent" => screen = Data

\* a Clear key has been handled over a drawn canvas and the screen shows the
\* cleared buffer
C18_Witness ==
    /\ pc = "XNextEvent"
    /\ nevents = 3
    /\ WhiteCells(Saved) # {}
    /\ WhiteCells(Data) = {}
    /\ WhiteCells(screen) = {}

\* the events neither handler acts on
Unhandled ==
    /\ pc = "handlers"
    /\ ev.type # "ButtonPress"
    /\ ~(ev.type = "KeyPress" /\ ev.keysym \in {"XK_Escape", "XK_q", "XK_c", "XK_C"})

\* C20: the handling of an event that is neither a ButtonPress nor a KeyPress
\* of Escape, q, c or C (MotionNotify, Expose, another key) leaves the live
\* buffer, the snapshot, the anchor, have_first, running and the screen as
\* they were, with or without an anchor pending.
C20_UnhandledEventsNoop ==
    [][Unhandled => ctx' = ctx /\ state' = state /\ screen' = screen]_vars

\* a MotionNotify is about to be handled while an anchor is pending, and the
\* handlers leave the machine as it is
C20_Witness ==
    /\ Unhandled
    /\ ev.type = "MotionNotify"
    /\ state.have_first
    /\ WhiteCells(Data) # {}
    /\ Dispatch(1, ev, Machine) = Machine

----------------------------------------------------------------------------
(* Termination of the rasterizers, stated on SpecRasterFair *)

InLoop == rpc \in {"draw_line", "draw_dotted_line"}
Returned == rpc \in {"draw_line returned", "draw_dotted_line returned"}

\* the turns from the point (x, y) to the endpoint of the line
Remaining(x, y) == Max(Abs(line.x1 - x), Abs(line.y1 - y))

Between(a, v, b) == (a <= v /\ v <= b) \/ (b <= v /\ v <= a)

\* C15: in both loops every turn brings the moving point one step nearer to
\* the endpoint without leaving the rectangle spanned by the two endpoints, so
\* a loop that is entered returns, after max(|dx|, |dy|) + 1 turns; and the
\* sequence of points visited is the one computed from the four endpoint
\* coordinates alone.
C15_RasterTerminates ==
    /\ [](InLoop =>
            /\ Len(visited) + Remaining(cur.x0, cur.y0) = Remaining(line.x0, line.y0)
            /\ Between(line.x0, cur.x0, line.x1)
            /\ Between(line.y0, cur.y0, line.y1))
    /\ [](Returned =>
            /\ Len(visited) = Remaining(line.x0, line.y0) + 1
            /\ visited = draw_line_loop(draw_line_setup(line.x0, line.y0,
                                                         line.x1, line.y1)))
    /\ (rpc = "draw_line" ~> rpc = "draw_line returned")
    /\ (rpc = "draw_dotted_line" ~> rpc = "draw_dotted_line returned")

\* a dotted line over the longest distance, right to left and upwards, has
\* returned
C15_Witness ==
    /\ rpc = "draw_dotted_line returned"
    /\ line.x0 - line.x1 = MaxCoord + 1
    /\ line.y0 - line.y1 = 4
    /\ Len(visited) = MaxCoord + 2

====
